---- MODULE Spec2Model ----
(***************************************************************************)
(* Model of UglifyEsPlugin (src/src/index.js): the optimize-chunk-assets   *)
(* handler _compile and the per-file pipeline _processFile,                *)
(* _processSourceMap, _processExtractComments, _writeExtractedComments and *)
(* _processExeption.                                                       *)
(*                                                                         *)
(* Asset objects live in a heap (a sequence of records; an object's        *)
(* identity is its index) so that two names of compilation.assets can hold *)
(* the same object and the __UglifyJsPlugin back-reference is shared.      *)
(* Absent values: 0 for an object reference or a number, "" for a string.  *)
(***************************************************************************)
EXTENDS Naturals, Sequences, FiniteSets, TLC

\* ------------------------------------------------------------------ bounds
\* How many times the optimize-chunk-assets hook fires on the compilation.
MaxRuns == 2

\* ------------------------------------------------------------- string help
\* Whether sub occurs in s.
Contains(s, sub) ==
    \E i \in 1..(Len(s) + 1) :
        /\ i + Len(sub) - 1 <= Len(s)
        /\ SubSeq(s, i, i + Len(sub) - 1) = sub

StartsWith(s, sub) == Len(sub) <= Len(s) /\ SubSeq(s, 1, Len(sub)) = sub

\* Array.prototype.join
RECURSIVE Join(_, _)
Join(parts, sep) ==
    IF Len(parts) = 0 THEN ""
    ELSE IF Len(parts) = 1 THEN parts[1]
    ELSE parts[1] \o sep \o Join(Tail(parts), sep)

\* chunks.reduce((all, chunk) => { all.push(...chunk.files) ... }, [...])
RECURSIVE Flatten(_)
Flatten(lists) ==
    IF Len(lists) = 0 THEN <<>> ELSE Head(lists) \o Flatten(Tail(lists))

\* -------------------------------------------------------- external: texts
\* The minifier is an external collaborator (uglify-es).  It is stood in for
\* by a table over the texts the model uses: two texts that minify, one that
\* fails at a known generated position, one that fails with a message only.
T_LICENSE == "//@license MIT\nf ( 1 ) ;"
T_BANG    == "/*! keep */ g ( ) ;"
T_SYNTAX  == "h ( ;"
T_BADMSG  == "i ( ) ;"
M_LICENSE == "f(1);"
M_BANG    == "g();"

Texts == {T_LICENSE, T_BANG, T_SYNTAX, T_BADMSG}

\* A thrown JavaScript value, as _processExeption reads it.
Thrown(line, col, message, msg, stack) ==
    [line |-> line, col |-> col, message |-> message, msg |-> msg, stack |-> stack]

NoErr == Thrown(0, 0, "", "", "")
TypeError(m) == Thrown(0, 0, m, "", "TypeError: " \o m)
ReferenceError(m) == Thrown(0, 0, m, "", "ReferenceError: " \o m)

\* uglify.minify(input, {...}).code : the code, or the failure raised.
Minify(text) ==
    CASE text = T_LICENSE -> [ok |-> TRUE, code |-> M_LICENSE, err |-> NoErr]
      [] text = T_BANG    -> [ok |-> TRUE, code |-> M_BANG, err |-> NoErr]
      [] text = M_LICENSE -> [ok |-> TRUE, code |-> M_LICENSE, err |-> NoErr]
      [] text = M_BANG    -> [ok |-> TRUE, code |-> M_BANG, err |-> NoErr]
      [] text = T_SYNTAX  -> [ok |-> FALSE, code |-> "",
                              err |-> Thrown(1, 4, "Unexpected token: punc (;)", "",
                                             "SyntaxError: Unexpected token: punc (;)")]
      [] OTHER            -> [ok |-> FALSE, code |-> "",
                              err |-> Thrown(0, 0, "", "internal failure", "Error")]

\* The comments of a text, in source order, as the minifier reports them.
CommentsOf(text) ==
    CASE text = T_LICENSE -> << [type |-> "comment1", value |-> "@license MIT"] >>
      [] text = T_BANG    -> << [type |-> "comment2", value |-> "! keep "] >>
      [] OTHER            -> << >>

\* ---------------------------------------------------- external: source maps
\* A source map is null, a map without entries, or a map with one entry that
\* sends generated (1,4) to original.js (10,2).
Maps == {"null", "empty", "full"}

NoPos == [source |-> "", line |-> 0, column |-> 0]

\* SourceMapConsumer.prototype.originalPositionFor
originalPositionFor(map, line, col) ==
    IF map = "full" /\ line = 1 /\ col = 4
    THEN [source |-> "original.js", line |-> 10, column |-> 2]
    ELSE NoPos

\* requestShortener is not defined anywhere in the file (line 189 reads it).
\* -------------------------------------------------------------- the options
\* this._options.test, the default of the constructor: /\.js($|\?)/i
DefaultTest(str) ==
    \E i \in 1..Len(str) :
        /\ i + 2 <= Len(str)
        /\ SubSeq(str, i, i + 2) \in {".js", ".jS", ".Js", ".JS"}
        /\ \/ i + 2 = Len(str)
           \/ SubSeq(str, i + 3, i + 3) = "?"

\* this._options.comments, the default of the constructor:
\* /^\**!|@preserve|@license/ tested against comment.value
RECURSIVE StarsThenBang(_)
StarsThenBang(v) ==
    /\ Len(v) > 0
    /\ \/ SubSeq(v, 1, 1) = "!"
       \/ SubSeq(v, 1, 1) = "*" /\ StarsThenBang(SubSeq(v, 2, Len(v)))

DefaultComments(value) ==
    \/ StarsThenBang(value)
    \/ Contains(value, "@preserve")
    \/ Contains(value, "@license")

\* options.extractComments as the caller may give it: absent, true, a
\* regular expression, or an object with condition / filename / banner.
\* filename and banner: "" is absent, "false" is the boolean false.
ExtractOff    == [kind |-> "off", condition |-> "", filename |-> "", banner |-> ""]
ExtractTrue   == [kind |-> "true", condition |-> "", filename |-> "", banner |-> ""]
ExtractRegex  == [kind |-> "regex", condition |-> "@license", filename |-> "", banner |-> ""]
ExtractShared == [kind |-> "object", condition |-> "all", filename |-> "all.LICENSE",
                  banner |-> "false"]

ExtractChoices == {ExtractOff, ExtractTrue, ExtractRegex, ExtractShared}

\* Variant of matchObject: the filter lets every candidate through.
matchObjectAll(file) == TRUE

\* ModuleFilenameHelpers.matchObject(this._options, file) with the options the
\* constructor merges: test as above, include and exclude absent.
matchObject(file) == DefaultTest(file)

\* ------------------------------------------------------------------- state
VARIABLES
    heap,                   \* the asset objects: [cls, text, map, marker]
    assets,                 \* compilation.assets: file name -> object
    errors,                 \* compilation.errors: the messages, in order
    warnings,               \* compilation.warnings
    warn_function,          \* uglify.AST_Node.warn_function
    options,                \* this._options: [sourceMap, extractComments]
    additionalChunkAssets,  \* compilation.additionalChunkAssets
    chunks,                 \* the chunks of the hook: each chunk's files
    nullMapThrows,          \* whether new SourceMapConsumer(null) throws
    pc,                     \* where _compile stands
    files,                  \* the filtered list _compile iterates
    idx,                    \* the position of forEach in files
    oldWarnFunction,        \* the local of line 42
    escaped,                \* an exception left the catch block
    runs,                   \* firings of the hook so far
    callbacks,              \* calls of the completion callback so far
    last,                   \* observer: the latest file's unit of work
    minifyCalls,            \* observer: minifier invocations per file name
    processed,              \* observer: files processed in this firing
    outcomes,               \* observer: per processed file, whether it threw
    errorsAtCompile,        \* observer: Len(errors) when the hook fired
    hookAtCompile,          \* observer: warn_function when the hook fired
    hookInBody,             \* observer: warn_function when the body ended
    transformed,            \* observer: object -> the output made from it
    initial                 \* observer: heap and assets as the host gave them

vars == << heap, assets, errors, warnings, warn_function, options,
           additionalChunkAssets, chunks, nullMapThrows, pc, files, idx,
           oldWarnFunction, escaped, runs, callbacks, last, minifyCalls,
           processed, outcomes, errorsAtCompile, hookAtCompile, hookInBody,
           transformed, initial >>

FileNames == {"a.js", "c.JS?v=1", "b.css", "d.jsx"}

\* What uglify-es may leave in its warning hook while it minifies.
HookValues == {"console.warn", "uglify.capture"}

\* new RawSource(value): no map, no back-reference.
RawSource(value) == [cls |-> "RawSource", text |-> value, map |-> "null", marker |-> 0]

\* --------------------------------------------------------- _processSourceMap
\* Lines 161-180.  The sourceMap test of line 165 only assigns input and falls
\* through; both accessor branches (sourceAndMap, or map and source) read the
\* object's map and text; line 178 constructs the consumer from the map.
_processSourceMap(asset) ==
    LET atLine166 == IF ~options.sourceMap THEN asset.text ELSE ""
        inputSourceMap == asset.map          \* line 171 or 174, always reached
        input == asset.text                  \* line 172 or 175 overwrites 166
        consumerFails == inputSourceMap = "null" /\ nullMapThrows
    IN  [ threw |-> consumerFails,
          err |-> IF consumerFails
                  THEN TypeError("Cannot read property 'sections' of null")
                  ELSE NoErr,
          input |-> input,
          mapAccessed |-> TRUE,
          consumerBuilt |-> TRUE ]

\* --------------------------------------------------- _processExtractComments
\* Lines 102-159.  Line 108 and line 109 both read the identifier options,
\* which no scope of the file defines: whichever branch is taken, the read
\* throws before any condition is set up.
_processExtractComments(extractComments) ==
    IF extractComments.kind = "regex"
    THEN [threw |-> TRUE, err |-> ReferenceError("options is not defined"),
          comments |-> << >>]
    ELSE [threw |-> TRUE, err |-> ReferenceError("options is not defined"),
          comments |-> << >>]

\* --------------------------------------------------- _writeExtractedComments
\* Lines 200-231.  file and outputSource are not in scope here: `${file}` is
\* evaluated only when no filename is configured, outputSource when a
\* non-empty banner is to be added.
_writeExtractedComments(h, a, extractedComments) ==
    LET ec == options.extractComments
        commentsSource == RawSource(Join(extractedComments, "\n\n") \o "\n")
        commentsFile == ec.filename
        present == commentsFile \in DOMAIN a
        isConcat == present /\ h[a[commentsFile]].cls = "ConcatSource"
        h2 == IF ~present THEN Append(h, commentsSource)
              ELSE IF isConcat
                   THEN [h EXCEPT ![a[commentsFile]].text =
                                    @ \o "\n" \o commentsSource.text]
                   ELSE Append(h, [cls |-> "ConcatSource",
                                   text |-> h[a[commentsFile]].text \o "\n"
                                            \o commentsSource.text,
                                   map |-> "empty", marker |-> 0])
        a2 == IF isConcat THEN a
              ELSE [n \in DOMAIN a \cup {commentsFile} |->
                        IF n = commentsFile THEN Len(h2) ELSE a[n]]
    IN  IF ec.filename = ""
        THEN [threw |-> TRUE, err |-> ReferenceError("file is not defined"),
              heap |-> h, assets |-> a]
        ELSE IF ec.banner # "false"
             THEN [threw |-> TRUE,
                   err |-> ReferenceError("outputSource is not defined"),
                   heap |-> h2, assets |-> a2]
             ELSE [threw |-> FALSE, err |-> NoErr, heap |-> h2, assets |-> a2]

\* Variant of _processExeption: a failure with neither a line nor a msg is
\* thrown again instead of being recorded.
_processExeptionRethrow(errs, err, file, sourceMap) ==
    IF err.line # 0
    THEN [errors |-> Append(errs,
                file \o " from UglifyJs\n" \o err.message \o " [" \o file
                \o ":" \o ToString(err.line) \o "," \o ToString(err.col) \o "]"),
          threw |-> FALSE]
    ELSE IF err.msg # ""
         THEN [errors |-> Append(errs, file \o " from UglifyJs\n" \o err.msg),
               threw |-> FALSE]
         ELSE [errors |-> errs, threw |-> TRUE]

\* ---------------------------------------------------------- _processExeption
\* Lines 182-198.  sourceMap is the fourth parameter; "undefined" when the
\* caller passes none.  Returns the error list and whether the handler threw
\* (line 189 reads requestShortener, which is not defined).
_processExeption(errs, err, file, sourceMap) ==
    IF err.line # 0
    THEN LET original == IF sourceMap = "undefined" THEN NoPos
                         ELSE originalPositionFor(sourceMap, err.line, err.col)
         IN  IF original.source # ""
             THEN [errors |-> errs, threw |-> TRUE]
             ELSE [errors |-> Append(errs,
                        file \o " from UglifyJs\n" \o err.message \o " [" \o file
                        \o ":" \o ToString(err.line) \o "," \o ToString(err.col)
                        \o "]"),
                   threw |-> FALSE]
    ELSE IF err.msg # ""
         THEN [errors |-> Append(errs, file \o " from UglifyJs\n" \o err.msg),
               threw |-> FALSE]
         ELSE [errors |-> Append(errs, file \o " from UglifyJs\n" \o err.stack),
               threw |-> FALSE]

\* -------------------------------------------------------------- _processFile
\* The result of a unit of work: the heap and assets it leaves, whether it
\* threw and what, and what it did on the way.
Outcome(h, a, threw, err, cached, minified, mapRead, extract, input) ==
    [ heap |-> h, assets |-> a, threw |-> threw, err |-> err, cached |-> cached,
      minified |-> minified, mapAccessed |-> mapRead, consumerBuilt |-> mapRead,
      extractCalled |-> extract, input |-> input ]

\* Variant of Install: the output is installed and the back-reference set
\* before the comments are extracted.
InstallEarly(h, a, file, asset, input, compressedCode) ==
    LET extract == options.extractComments.kind # "off"
        ex == IF extract
              THEN _processExtractComments(options.extractComments)
              ELSE [threw |-> FALSE, err |-> NoErr, comments |-> << >>]
        h1 == Append(h, RawSource(compressedCode))
        outputSource == Len(h1)
    IN  Outcome([h1 EXCEPT ![asset].marker = outputSource],
                [n \in DOMAIN a |-> IF n = file THEN outputSource ELSE a[n]],
                ex.threw, ex.err, FALSE, TRUE, TRUE, extract, input)

\* Lines 78-95: extraction, the new RawSource, the sidecar, and the assignment
\* asset.__UglifyJsPlugin = compilation.assets[file] = outputSource.
Install(h, a, file, asset, input, compressedCode) ==
    LET extract == options.extractComments.kind # "off"
        ex == IF extract
              THEN _processExtractComments(options.extractComments)
              ELSE [threw |-> FALSE, err |-> NoErr, comments |-> << >>]
        h1 == Append(h, RawSource(compressedCode))
        outputSource == Len(h1)
        wr == IF Len(ex.comments) > 0
              THEN _writeExtractedComments(h1, a, ex.comments)
              ELSE [threw |-> FALSE, err |-> NoErr, heap |-> h1, assets |-> a]
    IN  IF ex.threw
        THEN Outcome(h, a, TRUE, ex.err, FALSE, TRUE, TRUE, extract, input)
        ELSE IF wr.threw
             THEN Outcome(wr.heap, wr.assets, TRUE, wr.err, FALSE, TRUE, TRUE, extract,
                          input)
             ELSE Outcome([wr.heap EXCEPT ![asset].marker = outputSource],
                          [n \in DOMAIN wr.assets |->
                               IF n = file THEN outputSource ELSE wr.assets[n]],
                          FALSE, NoErr, FALSE, TRUE, TRUE, extract, input)

\* Lines 62-95: the source map, the minifier, then Install.
Transform(h, a, file, asset) ==
    LET sm == _processSourceMap(h[asset])
        mr == Minify(sm.input)
    IN  IF sm.threw
        THEN Outcome(h, a, TRUE, sm.err, FALSE, FALSE, TRUE, FALSE, "")
        ELSE IF ~mr.ok
             THEN Outcome(h, a, TRUE, mr.err, FALSE, TRUE, TRUE, FALSE, sm.input)
             ELSE Install(h, a, file, asset, sm.input, mr.code)

\* Variant of _processFile: the back-reference is not looked at.
_processFileNoCache(h, a, file) ==
    IF file \notin DOMAIN a
    THEN Outcome(h, a, TRUE,
                 TypeError("Cannot read property '__UglifyJsPlugin' of undefined"),
                 FALSE, FALSE, FALSE, FALSE, "")
    ELSE Transform(h, a, file, a[file])

\* Lines 54-100.  An asset that carries the back-reference is replaced by it
\* and nothing else happens; warnings (line 55) stays empty, so line 98 never
\* pushes.
_processFile(h, a, file) ==
    IF file \notin DOMAIN a
    THEN Outcome(h, a, TRUE,
                 TypeError("Cannot read property '__UglifyJsPlugin' of undefined"),
                 FALSE, FALSE, FALSE, FALSE, "")
    ELSE IF h[a[file]].marker # 0
         THEN Outcome(h, [a EXCEPT ![file] = h[a[file]].marker], FALSE, NoErr,
                      TRUE, FALSE, FALSE, FALSE, "")
         ELSE Transform(h, a, file, a[file])

\* ------------------------------------------------------------------ _compile
\* Lines 34-37: the candidate list.
Candidates == additionalChunkAssets \o Flatten(chunks)

NoLast ==
    [ file |-> "", asset |-> 0, cached |-> FALSE, minified |-> FALSE,
      mapAccessed |-> FALSE, consumerBuilt |-> FALSE, extractCalled |-> FALSE,
      threw |-> FALSE,
      err |-> NoErr, input |-> "", heapBefore |-> << >>, assetsBefore |-> << >>,
      errorsBefore |-> << >>, warningsBefore |-> << >> ]

\* Lines 33-40: the hook fires; the list is built and filtered.
Compile ==
    /\ pc = "idle"
    /\ runs < MaxRuns
    /\ files' = SelectSeq(Candidates, matchObject)
    /\ idx' = 1
    /\ pc' = "forEach"
    /\ runs' = runs + 1
    /\ processed' = << >>
    /\ outcomes' = << >>
    /\ errorsAtCompile' = Len(errors)
    /\ hookAtCompile' = warn_function
    /\ UNCHANGED << heap, assets, errors, warnings, warn_function, options,
                    additionalChunkAssets, chunks, nullMapThrows,
                    oldWarnFunction, escaped, callbacks, last, minifyCalls,
                    hookInBody, transformed, initial >>

\* Line 42: the next file's unit of work begins.
Enter ==
    /\ pc = "forEach"
    /\ idx <= Len(files)
    /\ oldWarnFunction' = warn_function
    /\ pc' = "try"
    /\ UNCHANGED << heap, assets, errors, warnings, warn_function, options,
                    additionalChunkAssets, chunks, nullMapThrows, files, idx,
                    escaped, runs, callbacks, last, minifyCalls, processed,
                    outcomes, errorsAtCompile, hookAtCompile, hookInBody,
                    transformed, initial >>

\* Lines 43-47: try { _processFile } catch (err) { _processExeption }.  The
\* catch passes three arguments, so sourceMap is undefined in the handler.
\* While it runs, the minifier may leave any value in its warning hook.
Try ==
    /\ pc = "try"
    /\ LET file == files[idx]
           r == _processFile(heap, assets, file)
           x == IF r.threw
                THEN _processExeption(errors, r.err, file, "undefined")
                ELSE [errors |-> errors, threw |-> FALSE]
       IN  /\ heap' = r.heap
           /\ assets' = r.assets
           /\ errors' = x.errors
           /\ escaped' = x.threw
           /\ \E hv \in HookValues :
                  warn_function' = IF r.minified THEN hv ELSE warn_function
           /\ hookInBody' = warn_function'
           /\ last' = [ file |-> file,
                        asset |-> IF file \in DOMAIN assets THEN assets[file] ELSE 0,
                        cached |-> r.cached, minified |-> r.minified,
                        mapAccessed |-> r.mapAccessed,
                        consumerBuilt |-> r.consumerBuilt,
                        extractCalled |-> r.extractCalled, threw |-> r.threw,
                        err |-> r.err, input |-> r.input, heapBefore |-> heap,
                        assetsBefore |-> assets, errorsBefore |-> errors,
                        warningsBefore |-> warnings ]
           /\ minifyCalls' = IF r.minified
                             THEN [minifyCalls EXCEPT ![file] = @ + 1]
                             ELSE minifyCalls
           /\ processed' = Append(processed, file)
           /\ outcomes' = Append(outcomes, r.threw)
           /\ transformed' = IF ~r.threw /\ ~r.cached
                             THEN [o \in DOMAIN r.heap |->
                                       IF o = assets[file] THEN r.assets[file]
                                       ELSE IF o \in DOMAIN transformed
                                            THEN transformed[o] ELSE 0]
                             ELSE [o \in DOMAIN r.heap |->
                                       IF o \in DOMAIN transformed
                                       THEN transformed[o] ELSE 0]
    /\ pc' = "finally"
    /\ UNCHANGED << warnings, options, additionalChunkAssets, chunks,
                    nullMapThrows, files, idx, oldWarnFunction, runs, callbacks,
                    errorsAtCompile, hookAtCompile, initial >>

\* Variant of Finally: the hook is left as the body set it.
FinallyNoRestore ==
    /\ pc = "finally"
    /\ IF escaped
       THEN pc' = "crashed" /\ idx' = idx
       ELSE pc' = "forEach" /\ idx' = idx + 1
    /\ UNCHANGED << heap, assets, errors, warnings, warn_function, options,
                    additionalChunkAssets, chunks, nullMapThrows, files,
                    oldWarnFunction, escaped, runs, callbacks, last,
                    minifyCalls, processed, outcomes, errorsAtCompile,
                    hookAtCompile, hookInBody, transformed, initial >>

\* Lines 47-49: finally restores the hook; an exception that left the catch
\* block then leaves _compile, otherwise forEach moves on.
Finally ==
    /\ pc = "finally"
    /\ warn_function' = oldWarnFunction
    /\ IF escaped
       THEN pc' = "crashed" /\ idx' = idx
       ELSE pc' = "forEach" /\ idx' = idx + 1
    /\ UNCHANGED << heap, assets, errors, warnings, options,
                    additionalChunkAssets, chunks, nullMapThrows, files,
                    oldWarnFunction, escaped, runs, callbacks, last,
                    minifyCalls, processed, outcomes, errorsAtCompile,
                    hookAtCompile, hookInBody, transformed, initial >>

\* Line 51: callback().
Callback ==
    /\ pc = "forEach"
    /\ idx > Len(files)
    /\ callbacks' = callbacks + 1
    /\ pc' = "idle"
    /\ UNCHANGED << heap, assets, errors, warnings, warn_function, options,
                    additionalChunkAssets, chunks, nullMapThrows, files, idx,
                    oldWarnFunction, escaped, runs, last, minifyCalls,
                    processed, outcomes, errorsAtCompile, hookAtCompile,
                    hookInBody, transformed, initial >>

\* ---------------------------------------------------------------------- Init
\* The assets the host hands over: objects of webpack-sources with a text and
\* a map, none transformed yet.
InputAsset(t, m) ==
    [ cls |-> IF m = "null" THEN "RawSource" ELSE "SourceMapSource",
      text |-> t, map |-> m, marker |-> 0 ]

InputAssets == { InputAsset(t, m) : t \in Texts, m \in Maps }

\* The style sheet and the .jsx file, which the default test does not select.
OtherAsset == [cls |-> "RawSource", text |-> T_BANG, map |-> "null", marker |-> 0]

\* compilation.additionalChunkAssets and the chunks' files.
AdditionalChoices == { << >>, << "a.js" >> }

ChunkChoices ==
    { << << "a.js", "b.css" >> >>,
      << << "a.js", "d.jsx" >>, << "c.JS?v=1", "b.css" >> >>,
      << << "c.JS?v=1", "a.js" >>, << "a.js" >> >> }

Init ==
    /\ \E o1 \in InputAssets :
          \/ /\ heap = << o1, OtherAsset, OtherAsset >>
             /\ assets = [n \in FileNames |->
                             CASE n = "a.js" -> 1 [] n = "c.JS?v=1" -> 1
                               [] n = "b.css" -> 2 [] OTHER -> 3]
          \/ \E o2 \in InputAssets :
                /\ heap = << o1, o2, OtherAsset, OtherAsset >>
                /\ assets = [n \in FileNames |->
                                CASE n = "a.js" -> 1 [] n = "c.JS?v=1" -> 2
                                  [] n = "b.css" -> 3 [] OTHER -> 4]
    /\ errors = << >>
    /\ warnings = << >>
    /\ warn_function = "console.warn"
    /\ options \in [sourceMap : BOOLEAN, extractComments : ExtractChoices]
    /\ additionalChunkAssets \in AdditionalChoices
    /\ chunks \in ChunkChoices
    /\ nullMapThrows \in BOOLEAN
    /\ pc = "idle"
    /\ files = << >>
    /\ idx = 1
    /\ oldWarnFunction = "console.warn"
    /\ escaped = FALSE
    /\ runs = 0
    /\ callbacks = 0
    /\ last = NoLast
    /\ minifyCalls = [n \in FileNames |-> 0]
    /\ processed = << >>
    /\ outcomes = << >>
    /\ errorsAtCompile = 0
    /\ hookAtCompile = "console.warn"
    /\ hookInBody = "console.warn"
    /\ transformed = [o \in DOMAIN heap |-> 0]
    /\ initial = [heap |-> heap, assets |-> assets]

Next == Compile \/ Enter \/ Try \/ Finally \/ Callback

Spec == Init /\ [][Next]_vars

\* ------------------------------------------------------------------- claims
\* A unit of work has just ended: last describes it.
JustProcessed == pc = "finally"

\* The files _compile is to process: the candidates the default test selects.
Selected == SelectSeq(Candidates, DefaultTest)

\* The asset the latest unit of work found already carried a back-reference.
LastWasMarked ==
    /\ JustProcessed
    /\ last.asset # 0
    /\ last.heapBefore[last.asset].marker # 0

\* Every name of compilation.assets but f holds what it held before the
\* latest unit of work.
OthersKept(f) ==
    /\ DOMAIN assets = DOMAIN last.assetsBefore
    /\ \A n \in DOMAIN assets : n # f => assets[n] = last.assetsBefore[n]

\* C1: processing a file whose asset object already carries the
\* __UglifyJsPlugin back-reference invokes no minifier, reads no map, extracts
\* no comment, appends no error and no warning, changes no object, and
\* installs under that file exactly the output the first transformation of
\* that object produced.
C1_MarkedAssetReused ==
    LastWasMarked =>
        /\ ~last.minified
        /\ ~last.mapAccessed
        /\ ~last.extractCalled
        /\ ~last.threw
        /\ errors = last.errorsBefore
        /\ warnings = last.warningsBefore
        /\ heap = last.heapBefore
        /\ transformed[last.asset] # 0
        /\ assets[last.file] = transformed[last.asset]
        /\ OthersKept(last.file)

\* C1 witness: a second name of an already transformed object was processed.
C1_Witness ==
    /\ LastWasMarked
    /\ minifyCalls[last.file] = 0
    /\ \E n \in FileNames : minifyCalls[n] > 0

\* C2: every selected file name is minified at most once over the firings of
\* the hook, and a later pass over a file whose asset is the output of an
\* earlier pass leaves that output in place.
C2_AtMostOncePerFile ==
    /\ \A n \in FileNames : minifyCalls[n] <= 1
    /\ (JustProcessed /\ (\E o \in DOMAIN transformed : transformed[o] = last.asset))
           => assets[last.file] = last.asset

\* C3: whatever files fail, every selected file is processed in list order,
\* each failing unit of work appends exactly one error and each other one
\* none, no exception leaves _compile, and the callback is called once per
\* firing, after the last file.
C3_FailureIsolation ==
    /\ pc # "crashed"
    /\ ~escaped
    /\ Len(processed) <= Len(Selected)
    /\ runs > 0 => processed = SubSeq(Selected, 1, Len(processed))
    /\ (pc = "idle" /\ runs > 0) => processed = Selected
    /\ JustProcessed =>
          errors = IF last.threw
                   THEN last.errorsBefore \o << errors[Len(errors)] >>
                   ELSE last.errorsBefore
    /\ runs > 0 =>
          Len(errors) = errorsAtCompile
                        + Cardinality({i \in DOMAIN outcomes : outcomes[i]})
    /\ callbacks = IF pc = "idle" THEN runs ELSE runs - 1

\* C3 witness: a firing has ended in which a file failed and a later file of
\* the list was transformed.
C3_Witness ==
    /\ pc = "idle"
    /\ callbacks > 0
    /\ \E i, j \in DOMAIN outcomes : i < j /\ outcomes[i] /\ ~outcomes[j]

\* C4: when a unit of work fails, compilation.assets and every asset object
\* (content and back-reference) are as they were before it.
C4_FailureLeavesState ==
    (JustProcessed /\ last.threw) =>
        /\ Len(errors) = Len(last.errorsBefore) + 1
        /\ assets = last.assetsBefore
        /\ heap = last.heapBefore

\* C4 witness: a file failed after the minifier had returned its code.
C4_Witness ==
    /\ JustProcessed
    /\ last.threw
    /\ last.minified
    /\ Minify(last.input).ok

\* The text a sidecar gets from one file's comments (lines 149-151, 206).
Formatted(c) ==
    IF c.type = "comment2" THEN "/*" \o c.value \o "*/" ELSE "//" \o c.value

SidecarBatch(text) ==
    Join([i \in DOMAIN CommentsOf(text) |-> Formatted(CommentsOf(text)[i])], "\n\n")
        \o "\n"

\* C5: with extraction into one shared sidecar name, once two selected files
\* with distinct assets that minify and carry comments have been processed,
\* the sidecar exists and holds the first file's comments, a blank line, and
\* the second file's.
C5_SidecarAccumulates ==
    ( /\ pc = "idle"
      /\ runs > 0
      /\ options.extractComments = ExtractShared
      /\ Len(Selected) >= 2
      /\ Selected[1] # Selected[2]
      /\ initial.assets[Selected[1]] # initial.assets[Selected[2]]
      /\ \A k \in 1..2 :
            LET t == initial.heap[initial.assets[Selected[k]]].text
            IN  Minify(t).ok /\ Len(CommentsOf(t)) > 0 )
    => /\ "all.LICENSE" \in DOMAIN assets
       /\ heap[assets["all.LICENSE"]].text =
              SidecarBatch(initial.heap[initial.assets[Selected[1]]].text)
              \o "\n"
              \o SidecarBatch(initial.heap[initial.assets[Selected[2]]].text)

\* No entry of compilation.errors is about file f.
NoErrorFor(f) ==
    \A i \in DOMAIN errors : ~StartsWith(errors[i], f \o " from UglifyJs")

\* C6: with extraction enabled and the banner not disabled, after a firing
\* that processed a.js holding the licensed text, a.js is the minified code
\* behind a banner comment naming a.js.LICENSE, a.js.LICENSE holds the
\* extracted comment, and no error is recorded.
C6_EndToEndExtraction ==
    ( /\ pc = "idle"
      /\ runs > 0
      /\ options.extractComments = ExtractRegex
      /\ initial.heap[initial.assets["a.js"]].text = T_LICENSE
      /\ "a.js" = Selected[1] )
    => /\ StartsWith(heap[assets["a.js"]].text, "/*! ")
       /\ Contains(heap[assets["a.js"]].text, "a.js.LICENSE")
       /\ Contains(heap[assets["a.js"]].text, M_LICENSE)
       /\ "a.js.LICENSE" \in DOMAIN assets
       /\ heap[assets["a.js.LICENSE"]].text = "//@license MIT\n"
       /\ NoErrorFor("a.js")

\* The position text of an error message.
At(name, line, col) == name \o ":" \o ToString(line) \o "," \o ToString(col)

\* C7: when the minifier fails at a generated position, the appended error
\* names the generated position; it also names the original position when the
\* asset's map has an entry for the generated one, and no original position
\* otherwise.
C7_DiagnosticTranslation ==
    (JustProcessed /\ last.threw /\ last.err.line # 0 /\ errors # << >>) =>
        LET e == errors[Len(errors)]
            o == originalPositionFor(last.heapBefore[last.asset].map,
                                     last.err.line, last.err.col)
        IN  /\ Contains(e, "[" \o At(last.file, last.err.line, last.err.col) \o "]")
            /\ IF o.source # ""
               THEN Contains(e, "[" \o At(o.source, o.line, o.column) \o "]")
               ELSE ~Contains(e, "][")

C9_HookRestored ==
    /\ pc # "finally" => warn_function = hookAtCompile
    /\ pc = "finally" => oldWarnFunction = hookAtCompile

\* C9 witness: a unit of work ended after its body had left another value in
\* the hook.
C9_Witness ==
    /\ pc = "forEach"
    /\ idx > 1
    /\ hookInBody # warn_function

\* C10: with sourceMap false, a unit of work that transforms reads the
\* asset's text only: no map accessor is called, no consumer is constructed,
\* and it does not fail on the asset's map.
C10_NoMapWhenDisabled ==
    (JustProcessed /\ ~options.sourceMap /\ last.asset # 0 /\ ~LastWasMarked) =>
        /\ ~last.mapAccessed
        /\ ~last.consumerBuilt
        /\ ~(last.threw /\ Contains(last.err.stack, "'sections' of null"))

====
